---- MODULE Spec2Model ----
(***************************************************************************)
(* Model of script.py: parse_expenses_to_csv and replace_category.         *)
(*                                                                         *)
(* Text is modelled as a sequence of one-character strings, so that        *)
(* str.lower, strptime and strftime are computed character by character.   *)
(* A JSON value is a record [k, v]: its kind and its text.                 *)
(***************************************************************************)
EXTENDS Integers, Sequences, FiniteSets

VARIABLES
    pc,          \* position of the interpreter inside one invocation
    input,       \* the input file named on the command line
    data,        \* the local `data` of parse_expenses_to_csv (json.load result)
    idx,         \* number of elements of `data` the for loop has consumed
    expenses,    \* the local list `expenses`
    outFile,     \* the file at the output path: [exists, lines]
    opened,      \* open(output_csv_file, 'w') calls made by this invocation
    console,     \* what this invocation has printed
    error,       \* the exception that ended this invocation, "" if none
    fileAtStart, \* the file at the output path when this invocation started
    lastExp,     \* the EXPENSE records of the latest completed invocation whose input held any
    libc         \* the C library under strftime: does %Y zero-pad years below 1000

vars == <<pc, input, data, idx, expenses, outFile, opened, console, error,
          fileAtStart, lastExp, libc>>

(***************************************************************************)
(* Bounds of the model.                                                    *)
(***************************************************************************)
\* longest input array of the multi-invocation specification
MaxLen == 2
\* most records placed before, and after, the record under study
MaxPad == 1

(***************************************************************************)
(* Text.                                                                   *)
(***************************************************************************)
UpperChars == <<"A","B","C","D","E","F","G","H","I","J","K","L","M",
                "N","O","P","Q","R","S","T","U","V","W","X","Y","Z">>
LowerChars == <<"a","b","c","d","e","f","g","h","i","j","k","l","m",
                "n","o","p","q","r","s","t","u","v","w","x","y","z">>
DigitChars == <<"0","1","2","3","4","5","6","7","8","9">>
\* what \s of the strptime regular expression accepts
SpaceChars == {" ", "\t", "\n"}

UpperSet == {UpperChars[k] : k \in 1..26}
LowerSet == {LowerChars[k] : k \in 1..26}
DigitSet == {DigitChars[k] : k \in 1..10}
IsUpper(c) == c \in UpperSet
IsLower(c) == c \in LowerSet
IsDigit(c) == c \in DigitSet
DigitValues == [c \in DigitSet |-> (CHOOSE k \in 1..10 : DigitChars[k] = c) - 1]
DigitVal(c) == DigitValues[c]

ToLower == [c \in UpperSet |-> LowerChars[CHOOSE k \in 1..26 : UpperChars[k] = c]]
ToUpper == [c \in LowerSet |-> UpperChars[CHOOSE k \in 1..26 : LowerChars[k] = c]]
\* str.lower() on one character
LowerChar(c) == IF IsUpper(c) THEN ToLower[c] ELSE c
UpperChar(c) == IF IsLower(c) THEN ToUpper[c] ELSE c
\* str.lower()
lower(s) == [k \in 1..Len(s) |-> LowerChar(s[k])]

(***************************************************************************)
(* replace_category.                                                       *)
(***************************************************************************)
K_grooming == <<"g","r","o","o","m","i","n","g">>
K_misc == <<"m","i","s","c">>
K_household == <<"h","o","u","s","e","h","o","l","d">>
K_bills == <<"b","i","l","l","s">>
K_dinning == <<"d","i","n","n","i","n","g">>
K_emi == <<"e","m","i">>

V_PersonalCare == <<"P","e","r","s","o","n","a","l"," ","C","a","r","e">>
V_Others == <<"O","t","h","e","r","s">>
V_Family == <<"F","a","m","i","l","y">>
V_BillsUtilities == <<"B","i","l","l","s"," ","&"," ","U","t","i","l","i","t","i","e","s">>
V_FoodDinning == <<"F","o","o","d"," ","&"," ","D","i","n","n","i","n","g">>
V_EMILoans == <<"E","M","I"," ","&"," ","L","o","a","n","s">>

\* a plausible slip: the comparison made without lowering the input
replace_category_cased(category) ==
    IF category = K_grooming THEN V_PersonalCare
    ELSE IF category = K_misc THEN V_Others
    ELSE IF category = K_household THEN V_Family
    ELSE IF category = K_bills THEN V_BillsUtilities
    ELSE IF category = K_dinning THEN V_FoodDinning
    ELSE IF category = K_emi THEN V_EMILoans
    ELSE category

replace_category(category) ==
    IF lower(category) = K_grooming THEN V_PersonalCare
    ELSE IF lower(category) = K_misc THEN V_Others
    ELSE IF lower(category) = K_household THEN V_Family
    ELSE IF lower(category) = K_bills THEN V_BillsUtilities
    ELSE IF lower(category) = K_dinning THEN V_FoodDinning
    ELSE IF lower(category) = K_emi THEN V_EMILoans
    ELSE category

(***************************************************************************)
(* datetime.strptime(date_str, '%Y-%m-%d %H:%M:%S') and                    *)
(* parsed_date.strftime('%Y-%m-%d').                                       *)
(***************************************************************************)
RECURSIVE DigitRun(_, _)
\* how many digits stand in s from position p on
DigitRun(s, p) == IF p <= Len(s) /\ IsDigit(s[p]) THEN 1 + DigitRun(s, p + 1) ELSE 0

RECURSIVE SpaceRun(_, _)
\* how many whitespace characters stand in s from position p on
SpaceRun(s, p) == IF p <= Len(s) /\ s[p] \in SpaceChars THEN 1 + SpaceRun(s, p + 1) ELSE 0

\* the number written by the n digits of s from position p on
RECURSIVE NumAt(_, _, _)
NumAt(s, p, n) == IF n = 0 THEN 0 ELSE NumAt(s, p, n - 1) * 10 + DigitVal(s[p + n - 1])

IsLeap(y) == (y % 4 = 0) /\ ((y % 100 # 0) \/ (y % 400 = 0))
DaysInMonth(y, m) ==
    IF m = 2 THEN (IF IsLeap(y) THEN 29 ELSE 28)
    ELSE IF m \in {4, 6, 9, 11} THEN 30 ELSE 31

NoDate == [ok |-> FALSE, year |-> 0, month |-> 0, day |-> 0]

\* The regular expression strptime builds from the format:
\*   (\d\d\d\d)-(1[0-2]|0[1-9]|[1-9])-(3[01]|[12]\d|0[1-9]|[1-9]| [1-9])\s+
\*   (2[0-3]|[0-1]\d|\d):([0-5]\d|\d):(6[0-1]|[0-5]\d|\d)
\* followed by the check that no text remains and by the range checks of the
\* datetime constructor.  Every failure is a ValueError.
strptime(s) ==
    LET yn == DigitRun(s, 1)
        mp == 6
        mn == DigitRun(s, mp)
        dp == mp + mn + 1
        \* the day alternative " [1-9]": one space, then one digit
        dsp == IF dp <= Len(s) /\ s[dp] = " " THEN 1 ELSE 0
        dn == DigitRun(s, dp + dsp)
        wp == dp + dsp + dn
        wn == SpaceRun(s, wp)
        hp == wp + wn
        hn == DigitRun(s, hp)
        Mp == hp + hn + 1
        Mn == DigitRun(s, Mp)
        Sp == Mp + Mn + 1
        Sn == DigitRun(s, Sp)
        year == NumAt(s, 1, 4)
        month == NumAt(s, mp, mn)
        day == NumAt(s, dp + dsp, dn)
        hour == NumAt(s, hp, hn)
        minute == NumAt(s, Mp, Mn)
        second == NumAt(s, Sp, Sn)
        matches ==
            /\ yn = 4
            /\ Len(s) >= 5 /\ s[5] = "-"
            /\ mn \in {1, 2} /\ month \in 1..12
            /\ Len(s) >= mp + mn /\ s[mp + mn] = "-"
            /\ dn \in {1, 2} /\ day \in 1..31
            /\ (dsp = 1 => dn = 1)
            /\ wn >= 1
            /\ hn \in {1, 2} /\ hour \in 0..23
            /\ Len(s) >= hp + hn /\ s[hp + hn] = ":"
            /\ Mn \in {1, 2} /\ minute \in 0..59
            /\ Len(s) >= Mp + Mn /\ s[Mp + Mn] = ":"
            /\ Sn \in {1, 2} /\ second \in 0..61
            /\ Len(s) = Sp + Sn - 1
    IN  IF matches /\ year >= 1 /\ day <= DaysInMonth(year, month) /\ second <= 59
        THEN [ok |-> TRUE, year |-> year, month |-> month, day |-> day]
        ELSE NoDate

RECURSIVE Dec(_)
\* the decimal digits of n, without padding
Dec(n) == IF n < 10 THEN <<DigitChars[n + 1]>> ELSE Dec(n \div 10) \o <<DigitChars[(n % 10) + 1]>>

RECURSIVE ZeroPad(_, _)
ZeroPad(t, w) == IF Len(t) >= w THEN t ELSE ZeroPad(<<"0">> \o t, w)

Platforms == {"glibc", "padded"}

\* strftime('%Y-%m-%d'): %m and %d are two digits; %Y is the C library's,
\* which on glibc writes a year below 1000 without leading zeros
strftime(d, lib) ==
    (IF lib = "padded" THEN ZeroPad(Dec(d.year), 4) ELSE Dec(d.year))
    \o <<"-">> \o ZeroPad(Dec(d.month), 2) \o <<"-">> \o ZeroPad(Dec(d.day), 2)

(***************************************************************************)
(* JSON values, records and the loop body of parse_expenses_to_csv.        *)
(***************************************************************************)
Str(s) == [k |-> "str", v |-> s]
Num(s) == [k |-> "num", v |-> s]
\* JSON null, and Python's None
Null == [k |-> "null", v |-> <<>>]
\* a key the object does not hold
Absent == [k |-> "absent", v |-> <<>>]

Keys == {"type", "date", "bankname", "category", "amount", "description"}
EXPENSE == <<"E","X","P","E","N","S","E">>

\* a plausible slip: dict.get without its default, which answers None for an absent key
dict_get_nodefault(entry, key, default) ==
    IF entry.f[key].k = "absent" THEN Null ELSE entry.f[key]

\* entry.get(key, default)
dict_get(entry, key, default) ==
    IF entry.f[key].k = "absent" THEN default ELSE entry.f[key]

\* a plausible slip: the type compared without regard to case
is_expense_anycase(entry) ==
    LET t == dict_get(entry, "type", Null)
    IN  t.k = "str" /\ lower(t.v) = lower(EXPENSE)

\* entry.get('type') == 'EXPENSE'
is_expense(entry) == dict_get(entry, "type", Null) = Str(EXPENSE)

\* a plausible slip: the ValueError of strptime left uncaught
format_date_uncaught(date_str, lib) ==
    IF date_str.k # "str" THEN [error |-> "TypeError", text |-> <<>>]
    ELSE IF strptime(date_str.v).ok
         THEN [error |-> "", text |-> strftime(strptime(date_str.v), lib)]
         ELSE [error |-> "ValueError", text |-> <<>>]

\* the try/except around strptime and strftime; strptime raises TypeError, which
\* is not caught, when its argument is not a str
format_date(date_str, lib) ==
    IF date_str.k # "str" THEN [error |-> "TypeError", text |-> <<>>]
    ELSE IF strptime(date_str.v).ok
         THEN [error |-> "", text |-> strftime(strptime(date_str.v), lib)]
         ELSE [error |-> "", text |-> <<>>]

\* One pass of the for loop over `entry`: the exception it raises ("" if none)
\* and the rows it appends.  An element that is no object has no .get;
\* None and numbers have no .lower.
loop_body(entry, lib) ==
    IF entry.k # "obj" THEN [error |-> "AttributeError", rows |-> <<>>]
    ELSE IF ~is_expense(entry) THEN [error |-> "", rows |-> <<>>]
    ELSE LET date_str == dict_get(entry, "date", Str(<<>>))
             formatted == format_date(date_str, lib)
             category == dict_get(entry, "category", Str(<<>>))
         IN  IF formatted.error # "" THEN [error |-> formatted.error, rows |-> <<>>]
             ELSE IF category.k # "str" THEN [error |-> "AttributeError", rows |-> <<>>]
             ELSE [error |-> "",
                   rows |-> << [Account |-> dict_get(entry, "bankname", Str(<<>>)),
                                Category |-> Str(replace_category(category.v)),
                                Amount |-> dict_get(entry, "amount", Str(<<>>)),
                                Date |-> Str(formatted.text),
                                Description |-> dict_get(entry, "description", Str(<<>>))] >>]

\* a plausible slip: insert(0, row) instead of append(row)
list_prepend(list, rows) == rows \o list

\* expenses.append(row)
list_append(list, rows) == list \o rows

\* a plausible slip: the test left out, the file written whatever the list holds
truthy_always(list) == TRUE

\* `if expenses:`
truthy(list) == list # <<>>

(***************************************************************************)
(* The output file and csv.DictWriter.                                     *)
(***************************************************************************)
fieldnames == << <<"A","c","c","o","u","n","t">>,
                 <<"C","a","t","e","g","o","r","y">>,
                 <<"A","m","o","u","n","t">>,
                 <<"D","a","t","e">>,
                 <<"D","e","s","c","r","i","p","t","i","o","n">> >>

\* the text csv writes for a value: '' for None, str(value) otherwise
csv_text(value) == value.v

header_line == [kind |-> "header", cells |-> fieldnames]
row_line(row) ==
    [kind |-> "row",
     cells |-> <<csv_text(row.Account), csv_text(row.Category), csv_text(row.Amount),
                 csv_text(row.Date), csv_text(row.Description)>>]

NoFile == [exists |-> FALSE, lines |-> <<>>]
NoData == [k |-> "none", items |-> <<>>]

\* `for entry in data` accepts a list, a dict (its keys) and a str (its characters)
iterable(d) == d.k \in {"array", "object", "string"}

(***************************************************************************)
(* Inputs.                                                                 *)
(***************************************************************************)
Obj(type, date, bankname, category, amount, description) ==
    [k |-> "obj",
     f |-> [key \in Keys |->
              CASE key = "type" -> type
                [] key = "date" -> date
                [] key = "bankname" -> bankname
                [] key = "category" -> category
                [] key = "amount" -> amount
                [] OTHER -> description]]

\* an array element, or an element met while iterating, that is no object
NonObj(kind) == [k |-> kind, f |-> [key \in Keys |-> Absent]]

\* YYYY-MM-DD HH:MM:SS, every field zero-padded
Canonical(y, m, d, H, M, S) ==
    ZeroPad(Dec(y), 4) \o <<"-">> \o ZeroPad(Dec(m), 2) \o <<"-">> \o ZeroPad(Dec(d), 2)
    \o <<" ">> \o ZeroPad(Dec(H), 2) \o <<":">> \o ZeroPad(Dec(M), 2) \o <<":">>
    \o ZeroPad(Dec(S), 2)

D_2025 == Canonical(2025, 1, 1, 14, 1, 15)
D_bad == <<"n","o","t","-","a","-","d","a","t","e">>
T_expense == <<"e","x","p","e","n","s","e">>
T_income == <<"I","N","C","O","M","E">>
C_Travel == <<"T","r","a","v","e","l">>
C_Misc == <<"M","i","s","c">>

\* the records of the multi-invocation specification
E_full == Obj(Str(EXPENSE), Str(D_2025), Str(<<"A">>), Str(C_Misc), Num(<<"5">>), Str(<<"x">>))
E_other == Obj(Str(EXPENSE), Str(D_bad), Str(<<"B">>), Str(C_Travel), Absent, Str(<<"y">>))
E_lowercase == Obj(Str(T_expense), Str(D_2025), Str(<<"C">>), Str(C_Misc), Num(<<"6">>), Str(<<"z">>))
E_income == Obj(Str(T_income), Str(D_2025), Str(<<"D">>), Str(C_Misc), Num(<<"7">>), Str(<<"w">>))
E_notype == Obj(Absent, Str(D_2025), Str(<<"E">>), Str(C_Misc), Num(<<"8">>), Str(<<"v">>))
E_nullcategory == Obj(Str(EXPENSE), Str(D_2025), Str(<<"F">>), Null, Num(<<"9">>), Str(<<"u">>))

Entries == {E_full, E_other, E_lowercase, E_income, E_notype, E_nullcategory, NonObj("num")}

SeqsUpTo(S, n) == UNION {[1..m -> S] : m \in 0..n}

Array(items) == [k |-> "array", items |-> items]

\* decoded JSON whose top level is no array; iterating an object yields its keys,
\* iterating a string its characters
NonArrays ==
    { [k |-> "object", items |-> <<>>],
      [k |-> "object", items |-> <<NonObj("str")>>],
      [k |-> "string", items |-> <<>>],
      [k |-> "string", items |-> <<NonObj("str"), NonObj("str")>>],
      [k |-> "number", items |-> <<>>],
      [k |-> "bool", items |-> <<>>],
      [k |-> "null", items |-> <<>>] }

File(json) == [status |-> "ok", json |-> json]
Unreadable == { [status |-> "missing", json |-> NoData],
                [status |-> "malformed", json |-> NoData] }

Inputs == {File(Array(a)) : a \in SeqsUpTo(Entries, MaxLen)}
          \cup {File(d) : d \in NonArrays} \cup Unreadable

(***************************************************************************)
(* One invocation of parse_expenses_to_csv, step by step.                  *)
(***************************************************************************)
Start(inp) ==
    /\ pc = "idle"
    /\ pc' = "read"
    /\ input' = inp
    /\ data' = NoData
    /\ idx' = 0
    /\ expenses' = <<>>
    /\ opened' = 0
    /\ console' = <<>>
    /\ error' = ""
    /\ fileAtStart' = outFile
    /\ UNCHANGED <<outFile, lastExp, libc>>

Invoke == \E inp \in Inputs : Start(inp)

Raise(exc) ==
    /\ pc' = "failed"
    /\ error' = exc

\* a plausible slip: the output opened for writing before the input is read
ReadInputAfterOpen ==
    /\ pc = "read"
    /\ outFile' = [exists |-> TRUE, lines |-> <<>>]
    /\ opened' = opened + 1
    /\ IF input.status = "missing"
       THEN Raise("FileNotFoundError") /\ UNCHANGED data
       ELSE IF input.status = "malformed"
       THEN Raise("JSONDecodeError") /\ UNCHANGED data
       ELSE pc' = "loop" /\ data' = input.json /\ UNCHANGED error
    /\ UNCHANGED <<input, idx, expenses, console, fileAtStart, lastExp, libc>>

\* open(input_json_file) and json.load
ReadInput ==
    /\ pc = "read"
    /\ IF input.status = "missing"
       THEN Raise("FileNotFoundError") /\ UNCHANGED data
       ELSE IF input.status = "malformed"
       THEN Raise("JSONDecodeError") /\ UNCHANGED data
       ELSE pc' = "loop" /\ data' = input.json /\ UNCHANGED error
    /\ UNCHANGED <<input, idx, expenses, outFile, opened, console, fileAtStart,
                   lastExp, libc>>

\* the for loop: one element, or its end and the test `if expenses:`
IterNext ==
    /\ pc = "loop"
    /\ IF ~iterable(data)
       THEN Raise("TypeError") /\ UNCHANGED <<idx, expenses>>
       ELSE IF idx = Len(data.items)
       THEN /\ pc' = (IF truthy(expenses) THEN "open" ELSE "report_none")
            /\ UNCHANGED <<idx, expenses, error>>
       ELSE LET r == loop_body(data.items[idx + 1], libc)
            IN  IF r.error # ""
                THEN Raise(r.error) /\ UNCHANGED <<idx, expenses>>
                ELSE /\ expenses' = list_append(expenses, r.rows)
                     /\ idx' = idx + 1
                     /\ UNCHANGED <<pc, error>>
    /\ UNCHANGED <<input, data, outFile, opened, console, fileAtStart, lastExp, libc>>

\* a plausible slip: mode 'a' instead of 'w'
OpenOutputAppending ==
    /\ pc = "open"
    /\ outFile' = [exists |-> TRUE, lines |-> outFile.lines]
    /\ opened' = opened + 1
    /\ pc' = "header"
    /\ UNCHANGED <<input, data, idx, expenses, console, error, fileAtStart, lastExp, libc>>

\* open(output_csv_file, 'w'): the file is created, or truncated
OpenOutput ==
    /\ pc = "open"
    /\ outFile' = [exists |-> TRUE, lines |-> <<>>]
    /\ opened' = opened + 1
    /\ pc' = "header"
    /\ UNCHANGED <<input, data, idx, expenses, console, error, fileAtStart, lastExp, libc>>

\* writer.writeheader()
WriteHeader ==
    /\ pc = "header"
    /\ outFile' = [outFile EXCEPT !.lines = Append(@, header_line)]
    /\ pc' = "rows"
    /\ UNCHANGED <<input, data, idx, expenses, opened, console, error, fileAtStart,
                   lastExp, libc>>

\* writer.writerows(expenses), and the end of the with block
WriteRows ==
    /\ pc = "rows"
    /\ outFile' = [outFile EXCEPT
                     !.lines = @ \o [k \in 1..Len(expenses) |-> row_line(expenses[k])]]
    /\ pc' = "report"
    /\ UNCHANGED <<input, data, idx, expenses, opened, console, error, fileAtStart,
                   lastExp, libc>>

\* a record whose type is exactly "EXPENSE"
Qualifies(e) == e.k = "obj" /\ e.f["type"] = Str(EXPENSE)

RECURSIVE CountExpense(_)
\* how many elements are records whose type is exactly "EXPENSE"
CountExpense(items) ==
    IF items = <<>> THEN 0
    ELSE (IF Qualifies(Head(items)) THEN 1 ELSE 0) + CountExpense(Tail(items))

\* the EXPENSE records among the elements, in input order
Qualifying(items) == SelectSeq(items, Qualifies)

\* the invocation returns: lastExp follows the inputs that held an EXPENSE record
Completed ==
    /\ pc' = "done"
    /\ lastExp' = (IF CountExpense(data.items) > 0 THEN Qualifying(data.items) ELSE lastExp)

\* print(f"Successfully exported ...")
ReportSuccess ==
    /\ pc = "report"
    /\ console' = Append(console, [msg |-> "exported", count |-> Len(expenses)])
    /\ Completed
    /\ UNCHANGED <<input, data, idx, expenses, outFile, opened, error, fileAtStart, libc>>

\* print("No EXPENSE entries found in the JSON file")
ReportNone ==
    /\ pc = "report_none"
    /\ console' = Append(console, [msg |-> "none", count |-> 0])
    /\ Completed
    /\ UNCHANGED <<input, data, idx, expenses, outFile, opened, error, fileAtStart, libc>>

\* the process ends, by returning or by the uncaught exception: its locals are gone,
\* the file stays
Exit ==
    /\ pc \in {"done", "failed"}
    /\ pc' = "idle"
    /\ input' = File(NoData)
    /\ data' = NoData
    /\ idx' = 0
    /\ expenses' = <<>>
    /\ opened' = 0
    /\ console' = <<>>
    /\ error' = ""
    /\ fileAtStart' = outFile
    /\ UNCHANGED <<outFile, lastExp, libc>>

Init ==
    /\ pc = "idle"
    /\ input = File(NoData)
    /\ data = NoData
    /\ idx = 0
    /\ expenses = <<>>
    /\ outFile = NoFile
    /\ opened = 0
    /\ console = <<>>
    /\ error = ""
    /\ fileAtStart = NoFile
    /\ lastExp = <<>>
    /\ libc \in Platforms

Next == Invoke \/ ReadInput \/ IterNext \/ OpenOutput \/ WriteHeader \/ WriteRows
        \/ ReportSuccess \/ ReportNone \/ Exit

\* any number of invocations, one after the other, against one output path
Spec == Init /\ [][Next]_vars

(***************************************************************************)
(* One invocation on an input built around one record under study.         *)
(***************************************************************************)
Fields == {"date", "bankname", "category", "amount", "description"}

B_valid == Obj(Str(EXPENSE), Str(D_2025), Str(<<"C","h">>), Str(K_misc),
               Num(<<"4","2",".","5">>), Str(<<"c","o">>))
B_invalid == Obj(Str(EXPENSE), Str(D_bad), Str(<<"C","h">>), Str(C_Travel),
                 Str(<<"1","0">>), Str(<<"t","e","a">>))

Without(e, absent) == [e EXCEPT !.f = [key \in Keys |-> IF key \in absent THEN Absent ELSE @[key]]]
With(e, key, value) == [e EXCEPT !.f[key] = value]

\* every subset of the five fields left out
FieldEntries == {Without(b, S) : b \in {B_valid, B_invalid}, S \in SUBSET Fields}

Years == {999, 2024, 2025}
Months == {1, 2, 12}
Days == {1, 29, 31}
Times == {<<0, 0, 0>>, <<23, 59, 59>>}

CanonicalDates == {Canonical(y, m, d, t[1], t[2], t[3]) : y \in Years, m \in Months,
                                                         d \in Days, t \in Times}
OtherDates ==
    { <<>>,
      D_bad,
      SubSeq(D_2025, 1, 10),
      <<"0","1","-","0","1","-","2","0","2","5">> \o SubSeq(D_2025, 11, 19),
      [D_2025 EXCEPT ![11] = "T"],
      D_2025 \o <<" ">>,
      <<" ">> \o D_2025,
      SubSeq(D_2025, 1, 10) \o <<" ">> \o SubSeq(D_2025, 11, 19),
      [D_2025 EXCEPT ![11] = "\t"],
      [D_2025 EXCEPT ![9] = " "],
      <<"2","0","2","5","-","1","-","1"," ","1",":","1",":","1">>,
      Canonical(0, 1, 1, 0, 0, 0),
      Canonical(1, 1, 1, 0, 0, 0),
      Canonical(2025, 13, 1, 0, 0, 0),
      Canonical(2025, 0, 1, 0, 0, 0),
      Canonical(2025, 1, 0, 0, 0, 0),
      Canonical(2025, 4, 31, 0, 0, 0),
      Canonical(2025, 1, 1, 24, 0, 0),
      Canonical(2025, 1, 1, 0, 60, 0),
      Canonical(2025, 1, 1, 0, 0, 60),
      Canonical(2025, 1, 1, 0, 0, 61),
      Canonical(1900, 2, 29, 0, 0, 0),
      Canonical(2000, 2, 29, 0, 0, 0),
      Canonical(12025, 1, 1, 0, 0, 0) }

DateEntries == {With(B_valid, "date", Str(d)) : d \in CanonicalDates \cup OtherDates}

CategoryKeys == {K_grooming, K_misc, K_household, K_bills, K_dinning, K_emi}
\* the key with any of its letters in upper case
CaseVariants(key) ==
    {[k \in 1..Len(key) |-> IF k \in U THEN UpperChar(key[k]) ELSE key[k]] :
        U \in SUBSET (1..Len(key))}
OtherCategories ==
    { <<>>,
      <<" ">> \o K_misc,
      K_misc \o <<" ">>,
      <<"d","i","n","i","n","g">>,
      <<"D","i","n","i","n","g">>,
      C_Travel,
      <<"t","r","a","v","e","l">>,
      K_emi \o <<"s">>,
      <<"E","M","I","S">>,
      V_Others,
      V_EMILoans }
CategoryInputs == (UNION {CaseVariants(key) : key \in CategoryKeys}) \cup OtherCategories

CategoryEntries == {With(B_valid, "category", Str(c)) : c \in CategoryInputs}

\* values of another JSON type, and records that are no expense
TypeEntries ==
    { With(B_valid, "date", Null), With(B_valid, "date", Num(<<"5">>)),
      With(B_valid, "category", Null), With(B_valid, "category", Num(<<"5">>)),
      With(B_valid, "bankname", Null), With(B_valid, "amount", Null),
      With(B_valid, "type", Str(T_expense)), With(B_valid, "type", Absent),
      With(B_invalid, "type", Null) }

\* the records placed around the record under study
PadEntries == {E_full, E_income}

\* the field, date and type cases stand among other records; the case variants of
\* the category keys, of which there are many, are each the only record of the input
RecordInputs ==
    {File(Array(pre \o <<e>> \o post)) :
        pre \in SeqsUpTo(PadEntries, MaxPad),
        e \in FieldEntries \cup DateEntries \cup TypeEntries,
        post \in SeqsUpTo(PadEntries, MaxPad)}
    \cup {File(Array(<<e>>)) : e \in CategoryEntries}

InitRecord ==
    /\ pc = "read"
    /\ input \in RecordInputs
    /\ data = NoData
    /\ idx = 0
    /\ expenses = <<>>
    /\ outFile = NoFile
    /\ opened = 0
    /\ console = <<>>
    /\ error = ""
    /\ fileAtStart = NoFile
    /\ lastExp = <<>>
    /\ libc \in Platforms

NextRecord == ReadInput \/ IterNext \/ OpenOutput \/ WriteHeader \/ WriteRows
              \/ ReportSuccess \/ ReportNone

\* one invocation, on every input built around one record under study
SpecRecord == InitRecord /\ [][NextRecord]_vars

(***************************************************************************)
(* Properties.                                                             *)
(***************************************************************************)
Items == data.items

\* where the row of the k-th element stands in `expenses`
RowIndex(k) == CountExpense(SubSeq(Items, 1, k))
RowFor(k) == expenses[RowIndex(k)]

\* the row of a record processed on its own
RowOf(e) == loop_body(e, libc).rows[1]

DataLines(file) == {k \in DOMAIN file.lines : file.lines[k].kind = "row"}

\* C1: a completed run on an input array produces as many data rows as the array
\* holds records whose type is exactly "EXPENSE"
RowCountEqualsExpenseCount ==
    (pc = "done" /\ data.k = "array") =>
        LET n == CountExpense(Items)
        IN  /\ Len(expenses) = n
            /\ IF n > 0
               THEN opened = 1 /\ outFile.exists /\ Cardinality(DataLines(outFile)) = n
               ELSE opened = 0

RowCountWitness ==
    /\ pc = "done" /\ data.k = "array"
    /\ Items = <<E_lowercase, E_full>>
    /\ Cardinality(DataLines(outFile)) = 1

\* C2: the k-th data row written is the row of the k-th EXPENSE record of the
\* input, nothing reordered, duplicated or dropped
RowsKeepInputOrder ==
    (pc = "done" /\ data.k = "array" /\ opened > 0) =>
        LET q == Qualifying(Items)
        IN  /\ Len(outFile.lines) = 1 + Len(q)
            /\ \A k \in 1..Len(q) : outFile.lines[k + 1] = row_line(RowOf(q[k]))

RowsKeepInputOrderWitness ==
    /\ pc = "done" /\ data.k = "array"
    /\ Len(outFile.lines) = 3
    /\ outFile.lines[2] # outFile.lines[3]

AllRecords(d) == d.k = "array" /\ \A k \in DOMAIN d.items : d.items[k].k = "obj"

\* C3: with no EXPENSE record the output path is never opened and the run reports
\* "no entries found"; with one or more the header is written once, before the
\* rows, and the run reports success
FileOnlyWhenExpenses ==
    /\ \A k \in DOMAIN outFile.lines : (outFile.lines[k].kind = "header") <=> (k = 1)
    /\ (AllRecords(data) /\ CountExpense(Items) = 0) =>
          /\ opened = 0
          /\ outFile = fileAtStart
          /\ pc \in {"loop", "report_none", "done"}
          /\ error = ""
          /\ (pc = "done" => console = <<[msg |-> "none", count |-> 0]>>)
    /\ (data.k = "array" /\ CountExpense(Items) > 0 /\ pc = "done") =>
          /\ opened = 1
          /\ outFile.lines[1] = header_line
          /\ console = <<[msg |-> "exported", count |-> CountExpense(Items)]>>

FileOnlyWhenExpensesWitness ==
    /\ pc = "done"
    /\ AllRecords(data) /\ Len(Items) = 2 /\ CountExpense(Items) = 0
    /\ fileAtStart.exists
    /\ outFile = fileAtStart

\* C8: an input whose top-level value is no array ends in an error, and prints
\* neither message
NonArrayIsAnError ==
    (data.k \in {"object", "string", "number", "bool", "null"}) =>
        /\ pc \notin {"open", "report", "report_none", "done"}
        /\ console = <<>>

\* C9: a run that fails while reading, decoding or transforming has never opened
\* the output path, and the file there is as it was
FailureLeavesOutputUntouched ==
    (pc = "failed" \/ error # "") => (opened = 0 /\ outFile = fileAtStart)

FailureLeavesOutputUntouchedWitness ==
    /\ pc = "failed"
    /\ error = "AttributeError"
    /\ expenses # <<>>
    /\ fileAtStart.exists
    /\ outFile = fileAtStart

ExpectedFile(records) ==
    IF records = <<>> THEN NoFile
    ELSE [exists |-> TRUE,
          lines |-> <<header_line>>
                    \o [k \in 1..Len(records) |-> row_line(RowOf(records[k]))]]

\* C10: between runs the file is the header and rows of the latest completed run
\* whose input held an EXPENSE record, and is absent if there was none; a run
\* without EXPENSE records leaves it as it was
FileIsOfLatestExpenseRun ==
    /\ (pc \in {"idle", "done", "failed"}) => outFile = ExpectedFile(lastExp)
    /\ (pc = "done" /\ CountExpense(Items) = 0) => outFile = fileAtStart
    /\ (pc = "done" /\ CountExpense(Items) > 0) => outFile = ExpectedFile(Qualifying(Items))

FileIsOfLatestExpenseRunWitness ==
    /\ pc = "done"
    /\ data.k = "array" /\ CountExpense(Items) = 0
    /\ outFile.exists
    /\ outFile = ExpectedFile(lastExp)

CategoryTable ==
    { <<K_grooming, V_PersonalCare>>, <<K_misc, V_Others>>, <<K_household, V_Family>>,
      <<K_bills, V_BillsUtilities>>, <<K_dinning, V_FoodDinning>>, <<K_emi, V_EMILoans>> }

IsCaseVariant(c, key) ==
    Len(c) = Len(key) /\ \A k \in 1..Len(key) : c[k] \in {key[k], UpperChar(key[k])}

TableValue(c) ==
    IF \E p \in CategoryTable : IsCaseVariant(c, p[1])
    THEN (CHOOSE p \in CategoryTable : IsCaseVariant(c, p[1]))[2]
    ELSE c

\* C4: the Category cell is the table's value for every case variant of the six
\* keys, and the category itself for every other string
CategoryFollowsTable ==
    \A k \in 1..idx :
        (Qualifies(Items[k]) /\ Items[k].f["category"].k = "str") =>
            csv_text(RowFor(k).Category) = TableValue(Items[k].f["category"].v)

CategoryFollowsTableWitness ==
    /\ pc = "done"
    /\ Len(Items) = 1 /\ Qualifies(Items[1])
    /\ Items[1].f["category"].v = <<"H","o","u","s","e","H","o","l","d">>
    /\ outFile.lines[2].cells[2] = V_Family

DateFails(e) ==
    \/ e.f["date"].k = "absent"
    \/ e.f["date"].k = "str" /\ ~strptime(e.f["date"].v).ok

FieldCell(row, field) ==
    CASE field = "bankname" -> csv_text(row.Account)
      [] field = "category" -> csv_text(row.Category)
      [] field = "amount" -> csv_text(row.Amount)
      [] field = "date" -> csv_text(row.Date)
      [] OTHER -> csv_text(row.Description)

\* C5: an EXPENSE record whose date does not parse raises nothing; its row is
\* emitted with an empty Date and the other cells as with a valid date, and the
\* rows of the other records are their own
UnparsedDateGivesEmptyCell ==
    /\ (pc = "failed" /\ iterable(data) /\ idx < Len(Items)) =>
          ~ ( /\ Qualifies(Items[idx + 1])
              /\ DateFails(Items[idx + 1])
              /\ Items[idx + 1].f["category"].k \in {"str", "absent"} )
    /\ \A k \in 1..idx :
          (Qualifies(Items[k]) /\ DateFails(Items[k])) =>
              LET row == RowFor(k)
                  dated == RowOf(With(Items[k], "date", Str(D_2025)))
              IN  /\ csv_text(row.Date) = <<>>
                  /\ \A field \in Fields \ {"date"} :
                        FieldCell(row, field) = FieldCell(dated, field)
                  /\ \A j \in 1..idx :
                        (j # k /\ Qualifies(Items[j])) => RowFor(j) = RowOf(Items[j])
                  /\ pc = "done" => outFile.lines[1 + RowIndex(k)] = row_line(row)

UnparsedDateGivesEmptyCellWitness ==
    /\ pc = "done"
    /\ Len(Items) = 3
    /\ Items[1] = E_full /\ Items[3] = E_full
    /\ Items[2].f["date"] = Str(D_bad)
    /\ Qualifies(Items[2])
    /\ Len(outFile.lines) = 4
    /\ outFile.lines[3].cells[4] = <<>>
    /\ outFile.lines[3].cells[1] # <<>>

\* YYYY-MM-DD HH:MM:SS, zero-padded, naming a date and a time that exist
IsCanonicalValid(s) ==
    /\ Len(s) = 19
    /\ \A p \in {1, 2, 3, 4, 6, 7, 9, 10, 12, 13, 15, 16, 18, 19} : IsDigit(s[p])
    /\ s[5] = "-" /\ s[8] = "-" /\ s[11] = " " /\ s[14] = ":" /\ s[17] = ":"
    /\ NumAt(s, 1, 4) >= 1
    /\ NumAt(s, 6, 2) \in 1..12
    /\ NumAt(s, 9, 2) \in 1..DaysInMonth(NumAt(s, 1, 4), NumAt(s, 6, 2))
    /\ NumAt(s, 12, 2) \in 0..23
    /\ NumAt(s, 15, 2) \in 0..59
    /\ NumAt(s, 18, 2) \in 0..59

\* C6: the Date cell of a record whose date is a valid zero-padded
\* YYYY-MM-DD HH:MM:SS is the first ten characters of that date
CanonicalDateKeepsFirstTen ==
    \A k \in 1..idx :
        ( /\ Qualifies(Items[k])
          /\ Items[k].f["date"].k = "str"
          /\ IsCanonicalValid(Items[k].f["date"].v) ) =>
            csv_text(RowFor(k).Date) = SubSeq(Items[k].f["date"].v, 1, 10)

\* the record with its absent fields filled in
Filled(e) == [e EXCEPT !.f = [key \in Keys |-> IF @[key].k = "absent" THEN B_valid.f[key] ELSE @[key]]]

\* C7: an EXPENSE record with fields absent raises nothing and yields one row,
\* whose cells are empty for the absent fields and, for the others, what they are
\* with no field absent
AbsentFieldsGiveEmptyCells ==
    /\ (pc = "failed" /\ iterable(data) /\ idx < Len(Items)) =>
          ~ ( /\ Qualifies(Items[idx + 1])
              /\ \E field \in Fields : Items[idx + 1].f[field].k = "absent"
              /\ Items[idx + 1].f["date"].k \in {"str", "absent"}
              /\ Items[idx + 1].f["category"].k \in {"str", "absent"} )
    /\ Len(expenses) = RowIndex(idx)
    /\ \A k \in 1..idx :
          Qualifies(Items[k]) =>
              LET row == RowFor(k)
                  filled == RowOf(Filled(Items[k]))
              IN  \A field \in Fields :
                      IF Items[k].f[field].k = "absent"
                      THEN FieldCell(row, field) = <<>>
                      ELSE FieldCell(row, field) = FieldCell(filled, field)

AbsentFieldsGiveEmptyCellsWitness ==
    /\ pc = "done"
    /\ Len(Items) = 3
    /\ Items[1] = E_full
    /\ Items[2] = Without(B_valid, {"bankname", "date", "amount"})
    /\ Len(outFile.lines) >= 3
    /\ outFile.lines[3].cells = << <<>>, V_Others, <<>>, <<>>, <<"c","o">> >>

====
